---- MODULE Spec2Model ----
(* A model of the todo_cli task store (src/src/task.rs, src/src/main.rs).    *)
(* The backing CSV file is a sequence of rows, each row a sequence of text   *)
(* fields; the store's handlers read it, change the in-memory collection and *)
(* rewrite it in place.                                                      *)
EXTENDS Naturals, Integers, Sequences, FiniteSets

VARIABLES file, tasks, last, prev, committed, fresh

vars == <<file, tasks, last, prev, committed, fresh>>

(* ------------------------------------------------------------------ *)
(* Bounds and input sets                                               *)
(* ------------------------------------------------------------------ *)

\* Largest number of tasks a successful add may leave in the file.
MaxTasks == 3

\* The number of fields of the new content on disk when a write is
\* interrupted part-way.
MaxCut == 5

\* The ids generate_task_id may return (8-character strings in the code).
Ids == {"id_a", "id_b", "id_c"}

\* The texts add is given, and the texts edit is given.
Titles == {"t1"}
Descriptions == {"d1"}
NewTitles == {"t2"}
NewDescriptions == {"d2"}

\* Option<T>: None is <<>>, Some(v) is <<v>>.
Opt(S) == {<<>>} \cup {<<v>> : v \in S}

(* ------------------------------------------------------------------ *)
(* Task record and the CSV codec (serde + csv with default settings)   *)
(* ------------------------------------------------------------------ *)

\* Task::new
Task(id, title, description, is_done) ==
    [id |-> id, title |-> title, description |-> description, is_done |-> is_done]

\* The header row the csv writer derives from the fields of struct Task.
Header == <<"id", "title", "description", "is_done">>

\* bool as the csv serializer prints it.
BoolText(b) == IF b THEN "true" ELSE "false"

\* One record as writer.serialize(task) emits it.
Serialize(t) == <<t.id, t.title, t.description, BoolText(t.is_done)>>

\* The columns of header h that carry field name.
Columns(h, name) == {i \in 1..Len(h) : h[i] = name}

\* A header names every field of Task exactly once (else serde reports a
\* missing or duplicate field on the first record).
HeaderOk(h) == \A i \in 1..Len(Header) : Cardinality(Columns(h, Header[i])) = 1

\* The field of row r that header h maps to name.
Field(h, r, name) == r[CHOOSE i \in Columns(h, name) : TRUE]

\* reader.deserialize(): under a header that names the struct's fields, a
\* record decodes when it has as many fields as the header row and its
\* is_done parses as bool.
RowOk(h, r) ==
    /\ Len(r) = Len(h)
    /\ Field(h, r, "is_done") \in {"true", "false"}

\* The records (rows after the header) that do not decode.
BadRecords(h, recs) ==
    IF HeaderOk(h) THEN {i \in 1..Len(recs) : ~RowOk(h, recs[i])}
    ELSE 1..Len(recs)

Deserialize(h, r) ==
    Task(Field(h, r, "id"), Field(h, r, "title"), Field(h, r, "description"),
         Field(h, r, "is_done") = "true")

\* The rows a complete write of ts leaves in the file: the header is emitted
\* with the first record, so an empty collection gives an empty file.
Encode(ts) ==
    IF ts = <<>> THEN <<>>
    ELSE <<Header>> \o [i \in 1..Len(ts) |-> Serialize(ts[i])]

(* ------------------------------------------------------------------ *)
(* The environment's part in a write                                   *)
(* ------------------------------------------------------------------ *)

\* io.stage names the step of the write the environment makes fail:
\*   "none"   the write runs to completion;
\*   "mkdir"  fs::create_dir_all(parent)? returns Err;
\*   "open"   OpenOptions::open(..)? (existing file) or File::create(..)?
\*            (missing file) returns Err;
\*   "flush"  the process is interrupted, or the device fails, after the
\*            truncation, with io.at fields of the new content on disk.
NoFault == [stage |-> "none", at |-> 0]

\* Two interruption points are followed: right after the truncation, with
\* the new content still in the writer's buffer, and MaxCut fields into it.
Faults ==
    {[stage |-> "mkdir", at |-> 0], [stage |-> "open", at |-> 0]}
    \cup {[stage |-> "flush", at |-> n] : n \in {0, MaxCut}}

\* The first n fields of rows, in file order (rows of Encode are full rows).
Cut(rows, n) ==
    LET w == Len(Header)
        full == n \div w
        rest == n % w
    IN  IF rest = 0 THEN SubSeq(rows, 1, full)
        ELSE Append(SubSeq(rows, 1, full), SubSeq(rows[full + 1], 1, rest))

\* The number of fields in rows.
Size(rows) == Len(rows) * Len(Header)

(* ------------------------------------------------------------------ *)
(* Tasks: the store's private helpers                                  *)
(* ------------------------------------------------------------------ *)

Min(S) == CHOOSE x \in S : \A y \in S : x <= y

\* Variant: the collection is not cleared before the file is loaded.
read_tasks_from_csv_no_clear(self, f) ==
    IF ~f.exists \/ f.rows = <<>> THEN [ok |-> TRUE, tasks |-> self]
    ELSE LET h == Head(f.rows)
             recs == Tail(f.rows)
             bad == BadRecords(h, recs)
             n == IF bad = {} THEN Len(recs) ELSE Min(bad) - 1
         IN  [ok |-> bad = {},
              tasks |-> self \o [i \in 1..n |-> Deserialize(h, recs[i])]]

\* Variant: records that do not decode are skipped instead of ending the read.
read_tasks_from_csv_skip_bad(self, f) ==
    IF ~f.exists \/ f.rows = <<>> THEN [ok |-> TRUE, tasks |-> <<>>]
    ELSE LET h == Head(f.rows)
             ok(r) == HeaderOk(h) /\ RowOk(h, r)
             good == SelectSeq(Tail(f.rows), ok)
         IN  [ok |-> TRUE,
              tasks |-> [i \in 1..Len(good) |-> Deserialize(h, good[i])]]

\* read_tasks_from_csv: clears self.tasks, then pushes one task per record,
\* stopping at the first record that does not decode.
read_tasks_from_csv(self, f) ==
    LET cleared == <<>>
    IN  IF ~f.exists \/ f.rows = <<>> THEN [ok |-> TRUE, tasks |-> cleared]
        ELSE LET h == Head(f.rows)
                 recs == Tail(f.rows)
                 bad == BadRecords(h, recs)
                 n == IF bad = {} THEN Len(recs) ELSE Min(bad) - 1
             IN  [ok |-> bad = {},
                  tasks |-> cleared \o [i \in 1..n |-> Deserialize(h, recs[i])]]

\* Variant: the parent directories are not created.
write_tasks_to_csv_no_mkdir(self, f, io) ==
    IF ~f.exists /\ ~f.dir THEN [ok |-> FALSE, file |-> f]
    ELSE [ok |-> TRUE,
          file |-> [dir |-> TRUE, exists |-> TRUE, rows |-> Encode(self)]]

\* Variant: an existing file is opened without truncate(true), so what the
\* new content does not cover stays.
write_tasks_to_csv_no_truncate(self, f, io) ==
    LET new == Encode(self)
        old == IF f.exists THEN f.rows ELSE <<>>
    IN  [ok |-> TRUE,
         file |-> [dir |-> TRUE, exists |-> TRUE,
                   rows |-> new \o SubSeq(old, Len(new) + 1, Len(old))]]

\* write_tasks_to_csv: opens the file with truncate(true), or creates it
\* after creating its missing parent directories; then serializes self.tasks
\* and flushes.  An Err of open, create_dir_all or File::create returns
\* before anything is truncated or created; a fault after the truncation
\* leaves what was written up to it.
write_tasks_to_csv(self, f, io) ==
    IF f.exists /\ io.stage = "open"
    THEN [ok |-> FALSE, file |-> f]
    ELSE IF ~f.exists /\ ~f.dir /\ io.stage = "mkdir"
    THEN [ok |-> FALSE, file |-> f]
    ELSE IF ~f.exists /\ io.stage = "open"
    THEN [ok |-> FALSE, file |-> [dir |-> TRUE, exists |-> FALSE, rows |-> <<>>]]
    ELSE IF io.stage = "flush" /\ io.at < Size(Encode(self))
    THEN [ok |-> FALSE,
          file |-> [dir |-> TRUE, exists |-> TRUE, rows |-> Cut(Encode(self), io.at)]]
    ELSE [ok |-> TRUE,
          file |-> [dir |-> TRUE, exists |-> TRUE, rows |-> Encode(self)]]

(* ------------------------------------------------------------------ *)
(* Tasks: the four handlers.  Each returns the result, the file and    *)
(* self.tasks as the call leaves them, and whether it wrote the file.  *)
(* ------------------------------------------------------------------ *)

Outcome(result, f, ts, wrote) ==
    [result |-> result, file |-> f, tasks |-> ts, wrote |-> wrote]

AfterWrite(w, ts) == Outcome(IF w.ok THEN "ok" ELSE "io", w.file, ts, w.ok)

add_task(self, f, add_args, new_id, io) ==
    LET rd == read_tasks_from_csv(self, f)
    IN  IF ~rd.ok THEN Outcome("decode", f, rd.tasks, FALSE)
        ELSE LET ts == Append(rd.tasks,
                              Task(new_id, add_args.title, add_args.description, FALSE))
             IN  AfterWrite(write_tasks_to_csv(ts, f, io), ts)

\* Index of the first task with this id, 0 when there is none.
FirstMatch(ts, id) ==
    LET m == {i \in 1..Len(ts) : ts[i].id = id}
    IN  IF m = {} THEN 0 ELSE Min(m)

\* Variant: an is_done that was not supplied resets the flag.
Override_reset_done(t, edit_args) ==
    [id |-> t.id,
     title |-> IF edit_args.title # <<>> THEN edit_args.title[1] ELSE t.title,
     description |-> IF edit_args.description # <<>>
                     THEN edit_args.description[1] ELSE t.description,
     is_done |-> IF edit_args.is_done # <<>> THEN edit_args.is_done[1] ELSE FALSE]

\* The body of edit_task's loop for the matching task.
Override(t, edit_args) ==
    [id |-> t.id,
     title |-> IF edit_args.title # <<>> THEN edit_args.title[1] ELSE t.title,
     description |-> IF edit_args.description # <<>>
                     THEN edit_args.description[1] ELSE t.description,
     is_done |-> IF edit_args.is_done # <<>> THEN edit_args.is_done[1] ELSE t.is_done]

\* Variant: the collection is written back whether or not a task matched.
edit_task_always_writes(self, f, edit_args, io) ==
    LET rd == read_tasks_from_csv(self, f)
    IN  IF ~rd.ok THEN Outcome("decode", f, rd.tasks, FALSE)
        ELSE LET k == FirstMatch(rd.tasks, edit_args.id)
                 ts == [i \in 1..Len(rd.tasks) |->
                          IF i = k THEN Override(rd.tasks[i], edit_args) ELSE rd.tasks[i]]
             IN  AfterWrite(write_tasks_to_csv(ts, f, io), ts)

edit_task(self, f, edit_args, io) ==
    LET rd == read_tasks_from_csv(self, f)
    IN  IF ~rd.ok THEN Outcome("decode", f, rd.tasks, FALSE)
        ELSE LET k == FirstMatch(rd.tasks, edit_args.id)
                 found == k # 0
                 ts == [i \in 1..Len(rd.tasks) |->
                          IF i = k THEN Override(rd.tasks[i], edit_args) ELSE rd.tasks[i]]
             IN  IF found THEN AfterWrite(write_tasks_to_csv(ts, f, io), ts)
                 ELSE Outcome("notfound", f, ts, FALSE)

\* Variant: list persists what it loaded.
list_task_rewrites(self, f) ==
    LET rd == read_tasks_from_csv(self, f)
    IN  IF ~rd.ok THEN Outcome("decode", f, rd.tasks, FALSE)
        ELSE AfterWrite(write_tasks_to_csv(rd.tasks, f, NoFault), rd.tasks)

list_task(self, f) ==
    LET rd == read_tasks_from_csv(self, f)
    IN  IF ~rd.ok THEN Outcome("decode", f, rd.tasks, FALSE)
        ELSE Outcome("ok", f, rd.tasks, FALSE)

\* Variant: the first task with the id is taken out with swap_remove, which
\* moves the last task into its place.
remove_task_swap_remove(self, f, remove_args, io) ==
    LET rd == read_tasks_from_csv(self, f)
    IN  IF ~rd.ok THEN Outcome("decode", f, rd.tasks, FALSE)
        ELSE LET k == FirstMatch(rd.tasks, remove_args.id)
                 n == Len(rd.tasks)
                 ts == [i \in 1..(n - 1) |-> IF i = k THEN rd.tasks[n] ELSE rd.tasks[i]]
             IN  IF k = 0 THEN Outcome("notfound", f, rd.tasks, FALSE)
                 ELSE AfterWrite(write_tasks_to_csv(ts, f, io), ts)

remove_task(self, f, remove_args, io) ==
    LET rd == read_tasks_from_csv(self, f)
    IN  IF ~rd.ok THEN Outcome("decode", f, rd.tasks, FALSE)
        ELSE LET initial_len == Len(rd.tasks)
                 keep(t) == t.id # remove_args.id    \* Vec::retain
                 ts == SelectSeq(rd.tasks, keep)
                 new_len == Len(ts)
             IN  IF initial_len = new_len THEN Outcome("notfound", f, ts, FALSE)
                 ELSE AfterWrite(write_tasks_to_csv(ts, f, io), ts)

\* generate_task_id: any id of the alphabet, whatever the collection holds.
generate_task_id(self) == Ids

(* ------------------------------------------------------------------ *)
(* Inputs                                                              *)
(* ------------------------------------------------------------------ *)

AddArgs == [title : Titles, description : Descriptions]
EditArgs == [id : Ids, title : Opt(NewTitles), description : Opt(NewDescriptions),
             is_done : Opt(BOOLEAN)]
RemoveArgs == [id : Ids]

\* Records an editor (or an earlier, interrupted run) may have left in a file.
\* Every well-formed collection is reached from the empty ones by the
\* handlers, so the initial files are the empty ones and the malformed ones.
GoodRowA == <<"id_a", "t1", "d1", "false">>
GoodRowB == <<"id_b", "t2", "d2", "true">>
ShortRow == <<"id_b", "t1", "d1">>
LongRow == <<"id_b", "t1", "d1", "false", "x">>
BadBoolRow == <<"id_b", "t1", "d1", "yes">>

InitRows ==
    { <<>>, <<Header>>,
      <<Header, ShortRow>>, <<Header, LongRow>>, <<Header, BadBoolRow>>,
      <<Header, GoodRowA, ShortRow>>, <<Header, GoodRowA, BadBoolRow>>,
      <<Header, GoodRowA, GoodRowB, LongRow>>,
      <<Header, BadBoolRow, GoodRowA>>, <<Header, LongRow, GoodRowA>> }

InitFiles ==
    {[dir |-> d, exists |-> FALSE, rows |-> <<>>] : d \in BOOLEAN}
    \cup {[dir |-> TRUE, exists |-> TRUE, rows |-> r] : r \in InitRows}

NoCall == [op |-> "none", result |-> "none"]

(* ------------------------------------------------------------------ *)
(* The state machine: main() runs one handler per invocation           *)
(* ------------------------------------------------------------------ *)

\* Tasks::new on the path main resolves; nothing has run yet.
Init ==
    /\ file \in InitFiles
    /\ tasks = <<>>
    /\ last = NoCall
    /\ prev = [file |-> file, loaded |-> FALSE]
    /\ committed = file
    /\ fresh = (~file.exists \/ Len(file.rows) <= 1)

\* No call is under way: main has not called a handler yet, or has taken
\* the result of the one it called.
Idle == last.op = "none"

\* The state a handler call leaves, given its outcome.
Step(call, out) ==
    /\ Idle
    /\ file' = out.file
    /\ tasks' = out.tasks
    /\ last' = [call EXCEPT !.result = out.result]
    /\ prev' = [file |-> file, loaded |-> tasks # <<>>]
    /\ committed' = IF out.wrote THEN out.file ELSE committed
    /\ fresh' = fresh

\* All records of f decode.
WellFormed(f) ==
    ~f.exists \/ f.rows = <<>> \/ BadRecords(Head(f.rows), Tail(f.rows)) = {}

\* The tasks the records of f carry, in file order.
Stored(f) ==
    IF ~f.exists \/ f.rows = <<>> THEN <<>>
    ELSE [i \in 1..(Len(f.rows) - 1) |-> Deserialize(Head(f.rows), f.rows[i + 1])]

\* add is followed on every file that does not decode and on every file
\* holding fewer than MaxTasks tasks.
Room == IF WellFormed(file) THEN Len(Stored(file)) < MaxTasks ELSE TRUE

Add ==
    \E a \in AddArgs, id \in generate_task_id(tasks) :
        /\ Idle
        /\ Room
        /\ LET out == add_task(tasks, file, a, id, NoFault)
           IN  Step([op |-> "add", args |-> a, new_id |-> id, result |-> "none"], out)

Edit ==
    \E e \in EditArgs :
        LET out == edit_task(tasks, file, e, NoFault)
        IN  Step([op |-> "edit", args |-> e, result |-> "none"], out)

Remove ==
    \E r \in RemoveArgs :
        LET out == remove_task(tasks, file, r, NoFault)
        IN  Step([op |-> "remove", args |-> r, result |-> "none"], out)

List ==
    LET out == list_task(tasks, file)
    IN  Step([op |-> "list", result |-> "none"], out)

\* main takes the handler's result (prints the message or the error); the
\* store and the file stay as the call left them.
Return ==
    /\ ~Idle
    /\ last' = NoCall
    /\ prev' = [file |-> file, loaded |-> FALSE]
    /\ UNCHANGED <<file, tasks, committed, fresh>>

Next == Add \/ Edit \/ Remove \/ List \/ Return

Spec == Init /\ [][Next]_vars

\* The command-line program, one process per call, with the write failing: open, create_dir_all or
\* File::create returns Err, or the process is killed (or the device fails)
\* between the truncation and the end of the flush.
\* A fault at a step the call does not reach changes nothing about it, so
\* only the calls whose write did fail are taken here.
FailedStep(call, out) == Idle /\ out.result = "io" /\ Step(call, out)

AddFault ==
    \E a \in AddArgs, id \in generate_task_id(tasks), io \in Faults :
        /\ Idle
        /\ Room
        /\ LET out == add_task(tasks, file, a, id, io)
           IN  FailedStep([op |-> "add", args |-> a, new_id |-> id, result |-> "none"], out)

EditFault ==
    \E e \in EditArgs, io \in Faults :
        LET out == edit_task(tasks, file, e, io)
        IN  FailedStep([op |-> "edit", args |-> e, result |-> "none"], out)

RemoveFault ==
    \E r \in RemoveArgs, io \in Faults :
        LET out == remove_task(tasks, file, r, io)
        IN  FailedStep([op |-> "remove", args |-> r, result |-> "none"], out)

\* The process ends after its one call (main returns); the next invocation
\* builds a new store with Tasks::new on the same path.
Exit ==
    /\ ~Idle
    /\ last' = NoCall
    /\ tasks' = <<>>
    /\ prev' = [file |-> file, loaded |-> FALSE]
    /\ UNCHANGED <<file, committed, fresh>>

NextFault ==
    Add \/ Edit \/ Remove \/ List \/ AddFault \/ EditFault \/ RemoveFault \/ Exit

SpecFault == Init /\ [][NextFault]_vars

(* ------------------------------------------------------------------ *)
(* What a reader of the file finds                                     *)
(* ------------------------------------------------------------------ *)

IdsOf(ts) == {ts[i].id : i \in 1..Len(ts)}

DistinctIds(ts) == \A i, j \in 1..Len(ts) : ts[i].id = ts[j].id => i = j

\* A record with the wrong number of fields or an is_done that is no bool.
Malformed(r) ==
    Len(r) # Len(Header) \/ r[Len(Header)] \notin {"true", "false"}

HasMalformedRow(f) ==
    f.exists /\ \E i \in 2..Len(f.rows) : Malformed(f.rows[i])

Mutating == {"add", "edit", "remove"}

\* ts without its k-th element.
Without(ts, k) == SubSeq(ts, 1, k - 1) \o SubSeq(ts, k + 1, Len(ts))

(* ------------------------------------------------------------------ *)
(* Claims                                                              *)
(* ------------------------------------------------------------------ *)

\* C1: at every point, also after an interrupted or failed write, the file
\* is exactly what the last completed write (or the initial state) left.
C1_FileIsLastCompletedWrite == file = committed

\* C2: starting from an empty store, no two tasks of the persisted
\* collection share an id, whatever ids the generator returns.
C2_UniqueIds == (fresh /\ WellFormed(file)) => DistinctIds(Stored(file))

\* C3: edit and remove of an id that no persisted task has return the
\* not-found error and leave the file as it was.
C3_NotFoundLeavesFile ==
    (/\ last.op \in {"edit", "remove"}
     /\ WellFormed(prev.file)
     /\ last.args.id \notin IdsOf(Stored(prev.file)))
    => (last.result = "notfound" /\ file = prev.file)

C3_Witness ==
    /\ last.op = "edit"
    /\ last.args.title # <<>>
    /\ WellFormed(prev.file)
    /\ Len(Stored(prev.file)) >= 1
    /\ last.args.id \notin IdsOf(Stored(prev.file))

\* C4: a successful edit overwrites, on the first task with the id, exactly
\* the supplied fields; its id, its other fields, every other task and the
\* order of the persisted collection stay as they were.
C4_EditFrame ==
    (last.op = "edit" /\ last.result = "ok") =>
        LET T == Stored(prev.file)
            e == last.args
            k == FirstMatch(T, e.id)
            edited ==
                [id |-> T[k].id,
                 title |-> IF e.title = <<>> THEN T[k].title ELSE e.title[1],
                 description |->
                     IF e.description = <<>> THEN T[k].description ELSE e.description[1],
                 is_done |-> IF e.is_done = <<>> THEN T[k].is_done ELSE e.is_done[1]]
        IN  /\ k # 0
            /\ file.exists
            /\ file.rows = Encode([j \in 1..Len(T) |-> IF j = k THEN edited ELSE T[j]])

C4_Witness ==
    /\ last.op = "edit" /\ last.result = "ok"
    /\ last.args.title # <<>> /\ last.args.description = <<>> /\ last.args.is_done = <<>>
    /\ Len(Stored(file)) = 2
    /\ FirstMatch(Stored(prev.file), last.args.id) = 2
    /\ Stored(prev.file)[2].is_done
    /\ Stored(file) # Stored(prev.file)

\* C5: removing an existing id from N tasks with distinct ids succeeds and
\* leaves the other N-1 tasks, unchanged and in order; removing it again
\* fails with not-found.
C5_RemoveExactlyOne ==
    (/\ last.op = "remove"
     /\ WellFormed(prev.file)
     /\ DistinctIds(Stored(prev.file))
     /\ last.args.id \in IdsOf(Stored(prev.file)))
    => LET T == Stored(prev.file)
           k == FirstMatch(T, last.args.id)
       IN  /\ last.result = "ok"
           /\ WellFormed(file)
           /\ Len(Stored(file)) = Len(T) - 1
           /\ Stored(file) = Without(T, k)
           /\ last.args.id \notin IdsOf(Stored(file))
           /\ remove_task(tasks, file, last.args, NoFault).result = "notfound"
           /\ remove_task(tasks, file, last.args, NoFault).file = file

C5_Witness ==
    /\ last.op = "remove" /\ last.result = "ok"
    /\ Len(Stored(prev.file)) = 3
    /\ DistinctIds(Stored(prev.file))
    /\ FirstMatch(Stored(prev.file), last.args.id) = 1
    /\ Len(Stored(file)) = 2
    /\ Stored(file)[1] # Stored(file)[2]

\* C6: with no backing file, list and add succeed; add leaves the file in
\* place, its parent directories created, holding exactly the new task with
\* the given title and description and is_done = false.
C6_Bootstrap ==
    (last.op \in {"list", "add"} /\ ~prev.file.exists) =>
        /\ last.result = "ok"
        /\ last.op = "list" => file = prev.file
        /\ last.op = "add" =>
             /\ file.exists /\ file.dir
             /\ WellFormed(file)
             /\ Stored(file) =
                  <<Task(last.new_id, last.args.title, last.args.description, FALSE)>>

C6_Witness ==
    /\ last.op = "add" /\ last.result = "ok"
    /\ ~prev.file.exists /\ ~prev.file.dir
    /\ file.exists

\* C7 as stated: after every successful add, edit or remove the file is the
\* header row followed by one record per task in in-memory order, also when
\* the resulting collection is empty.
C7_HeaderThenRecords ==
    (last.op \in Mutating /\ last.result = "ok") =>
        /\ Len(file.rows) = Len(tasks) + 1
        /\ file.rows[1] = Header
        /\ \A i \in 1..Len(tasks) : file.rows[i + 1] = Serialize(tasks[i])

\* C7 amended: after every successful add, edit or remove that leaves a
\* non-empty collection the file is the header row followed by one record
\* per task in in-memory order; when it leaves the empty collection the
\* file is empty, without a header row.
C7_HeaderUnlessEmpty ==
    (last.op \in Mutating /\ last.result = "ok") =>
        IF tasks = <<>> THEN file.exists /\ file.rows = <<>>
        ELSE /\ Len(file.rows) = Len(tasks) + 1
             /\ file.rows[1] = Header
             /\ \A i \in 1..Len(tasks) : file.rows[i + 1] = Serialize(tasks[i])

C7_Witness ==
    /\ last.op = "remove" /\ last.result = "ok"
    /\ Len(Stored(prev.file)) = 1
    /\ tasks = <<>>
    /\ file.rows = <<>>

\* C8: when the file holds a malformed record, add, edit, remove and list
\* each return an error and leave the file as it was.
C8_MalformedAborts ==
    (last.op # "none" /\ HasMalformedRow(prev.file)) =>
        (last.result = "decode" /\ file = prev.file)

C8_Witness ==
    /\ last.op = "add"
    /\ HasMalformedRow(prev.file)
    /\ ~Malformed(prev.file.rows[2])
    /\ last.result = "decode"

\* C9: list leaves the file, present or not, well-formed or not, exactly as
\* it was, whether it succeeds or fails.
C9_ListReadOnly == last.op = "list" => file = prev.file

C9_Witness ==
    /\ last.op = "list" /\ last.result = "ok"
    /\ prev.file.exists /\ prev.file.rows = <<Header>>

\* C10: add on a well-formed file succeeds and leaves the tasks the file
\* held, unchanged and in order, followed by the one new task with the
\* given title and description and is_done = false, whatever the store
\* instance held in memory.
C10_AddAppends ==
    (last.op = "add" /\ WellFormed(prev.file)) =>
        /\ last.result = "ok"
        /\ WellFormed(file)
        /\ Stored(file) =
             Append(Stored(prev.file),
                    Task(last.new_id, last.args.title, last.args.description, FALSE))

C10_Witness ==
    /\ last.op = "add" /\ last.result = "ok"
    /\ prev.loaded
    /\ Len(Stored(prev.file)) = 2
    /\ Stored(prev.file)[1] # Stored(prev.file)[2]
    /\ Len(Stored(file)) = 3

====
